---------------------------- MODULE Spec2Model ----------------------------
(***************************************************************************)
(* Model of generate_results.py: main runs the results pipeline twice      *)
(* (word relevance, then sentence relevance).  One call of run globs the   *)
(* prediction files, reads and concatenates them, applies a sigmoid to the *)
(* predictions of the logit-producing models, computes five metrics per    *)
(* (seed, user, model, strategy, reading_task) group, merges the five      *)
(* tables and logs mean and standard deviation per model and strategy.     *)
(*                                                                         *)
(* Numbers are fixed point: predictions and metric values are integers in  *)
(* thousandths (0.5 is 500); a value printed with %.2f is an integer in    *)
(* hundredths.  NaN is the string "nan".                                   *)
(***************************************************************************)
EXTENDS Integers, Sequences, FiniteSets, TLC

(* Most prediction files that may match one pattern in a project directory *)
MaxFiles == 2

---------------------------------------------------------------------------
(* Generic helpers *)

RECURSIVE SumSeq(_)
SumSeq(s) == IF s = <<>> THEN 0 ELSE Head(s) + SumSeq(Tail(s))

RECURSIVE Flatten(_)
Flatten(ss) == IF ss = <<>> THEN <<>> ELSE Head(ss) \o Flatten(Tail(ss))

Range(s) == {s[i] : i \in DOMAIN s}

Reverse(s) == [i \in 1..Len(s) |-> s[Len(s) + 1 - i]]

(* All orders in which the elements of a finite set can be listed *)
Orders(S) ==
    {f \in [1..Cardinality(S) -> S] : \A i, j \in 1..Cardinality(S) : f[i] = f[j] => i = j}

(* round(n / d) for n >= 0, d > 0 *)
RoundDiv(n, d) == (2 * n + d) \div (2 * d)

---------------------------------------------------------------------------
(* The labels of the model, in Python's string order *)

Labels == <<"A", "B", "eegnet", "lstm", "nr", "sr", "svm", "uercm">>

StrRank(s) == CHOOSE i \in DOMAIN Labels : Labels[i] = s

KeyCols == <<"seed", "user", "model", "strategy", "reading_task">>

Key(r) == <<r.seed, r.user, r.model, r.strategy, r.reading_task>>

(* Comparison of two values of key column i: seed and user are numbers, *)
(* model, strategy and reading_task are strings                         *)
ValLess(i, a, b) ==
    IF i <= 2 THEN a < b ELSE StrRank(a) < StrRank(b)

(* Lexicographic order of group keys *)
KeyLess(k1, k2) ==
    \E i \in 1..Len(KeyCols) :
        /\ \A j \in 1..(i - 1) : k1[j] = k2[j]
        /\ k1[i] /= k2[i]
        /\ ValLess(i, k1[i], k2[i])

RECURSIVE SortKeys(_)
SortKeys(S) ==
    IF S = {} THEN <<>>
    ELSE LET m == CHOOSE k \in S : \A o \in S \ {k} : KeyLess(k, o)
         IN  <<m>> \o SortKeys(S \ {m})

---------------------------------------------------------------------------
(* The files benchmark.py may have written to the project directory *)

Row(seed, user, model, strategy, task, p, t) ==
    [seed |-> seed, user |-> user, model |-> model, strategy |-> strategy,
     reading_task |-> task, predictions |-> p, targets |-> t]

(* eegnet logits: one user perfectly separated (0 maps to exactly 0.5),   *)
(* another user, the same configuration otherwise, all wrong              *)
Content1 ==
    << Row(1, 1, "eegnet", "A", "nr",  2000, 1),
       Row(1, 1, "eegnet", "A", "nr", -2000, 0),
       Row(1, 1, "eegnet", "A", "nr",  1000, 1),
       Row(1, 1, "eegnet", "A", "nr",     0, 0),
       Row(1, 2, "eegnet", "A", "nr", -1000, 1),
       Row(1, 2, "eegnet", "A", "nr",  1000, 0) >>

(* the group of Content1 again, and a model that emits probabilities *)
Content2 ==
    << Row(1, 1, "eegnet", "A", "nr", -1000, 1),
       Row(1, 1, "eegnet", "A", "nr",  1000, 0),
       Row(1, 1, "svm", "B", "nr", 900, 1),
       Row(1, 1, "svm", "B", "nr", 200, 0),
       Row(1, 1, "svm", "B", "nr", 800, 1),
       Row(1, 1, "svm", "B", "nr", 100, 0) >>

(* a model outside the list with scores outside [0, 1] under one strategy *)
(* and probabilities under another, uercm and lstm                         *)
Content3 ==
    << Row(1, 1, "svm", "B", "nr", 2000, 1),
       Row(1, 1, "svm", "B", "nr",  300, 0),
       Row(1, 1, "svm", "A", "nr",  800, 1),
       Row(1, 1, "svm", "A", "nr",  900, 0),
       Row(2, 1, "uercm", "B", "sr",  1000, 1),
       Row(2, 1, "uercm", "B", "sr", -1000, 0),
       Row(2, 1, "lstm", "A", "nr",     0, 1),
       Row(2, 1, "lstm", "A", "nr", -1000, 0) >>

(* eegnet, strategy A, three seeds with AUROC 1.0, 0.8 and 0.9 *)
Content4 ==
    << Row(1, 1, "eegnet", "A", "nr",  1000, 1),
       Row(1, 1, "eegnet", "A", "nr", -1000, 0),
       Row(2, 1, "eegnet", "A", "nr",     0, 1),
       Row(2, 1, "eegnet", "A", "nr",  1000, 0),
       Row(2, 1, "eegnet", "A", "nr", -1000, 0),
       Row(2, 1, "eegnet", "A", "nr", -1000, 0),
       Row(2, 1, "eegnet", "A", "nr", -2000, 0),
       Row(2, 1, "eegnet", "A", "nr", -2000, 0),
       Row(3, 1, "eegnet", "A", "nr",     0, 1),
       Row(3, 1, "eegnet", "A", "nr",     0, 0),
       Row(3, 1, "eegnet", "A", "nr", -1000, 0),
       Row(3, 1, "eegnet", "A", "nr", -1000, 0),
       Row(3, 1, "eegnet", "A", "nr", -2000, 0),
       Row(3, 1, "eegnet", "A", "nr", -2000, 0) >>

(* a file whose target column holds a value that is no class label *)
Content6 ==
    << Row(1, 1, "svm", "A", "nr", 900, 2),
       Row(1, 1, "svm", "A", "nr", 100, 0) >>

(* File contents by number; number 5 is a file that does not unpickle *)
Contents ==
    [c \in 1..6 |->
        CASE c = 1 -> [readable |-> TRUE, rows |-> Content1]
          [] c = 2 -> [readable |-> TRUE, rows |-> Content2]
          [] c = 3 -> [readable |-> TRUE, rows |-> Content3]
          [] c = 4 -> [readable |-> TRUE, rows |-> Content4]
          [] c = 5 -> [readable |-> FALSE, rows |-> <<>>]
          [] c = 6 -> [readable |-> TRUE, rows |-> Content6]]

(* A file name is prefix + stem + extension; the content number says what *)
(* the file holds.                                                         *)
File(prefix, stem, ext, c) ==
    [prefix |-> prefix, stem |-> stem, ext |-> ext, content |-> c]

WordFiles == {File("w_relevance_seed", c, ".pkl", c) : c \in 1..6}

SentenceFiles ==
    { File("s_relevance_seed", 1, ".pkl", 2),
      File("s_relevance_seed", 2, ".pkl", 3),
      File("s_relevance_seed", 3, ".pkl", 6) }

(* set_logging writes the log file into the project directory *)
LogFile == File("logs_results", 0, ".log", 5)

---------------------------------------------------------------------------
(* Loader *)

(* glob.glob(os.path.join(project_path, file_pattern)): the files of the  *)
(* directory whose name is the pattern's prefix, anything, its extension  *)
GlobMatch(dir, pattern) ==
    {f \in dir : f.prefix = pattern.prefix /\ f.ext = pattern.ext}

(* pd.read_pickle: the file's table, each row under its own index label   *)
(* 0, 1, ... (a RangeIndex per file)                                      *)
ReadPickle(fp) ==
    LET rows == Contents[fp.content].rows
    IN  [i \in 1..Len(rows) |->
            [index |-> i - 1, seed |-> rows[i].seed, user |-> rows[i].user,
             model |-> rows[i].model, strategy |-> rows[i].strategy,
             reading_task |-> rows[i].reading_task,
             predictions |-> rows[i].predictions, targets |-> rows[i].targets]]

(* pd.concat(results): the frames one after the other, index labels kept; *)
(* it raises when there is no frame                                       *)
Concat(frames) == [ok |-> frames /= <<>>, table |-> Flatten(frames)]

---------------------------------------------------------------------------
(* Predictor normalizer *)

SigmoidModels == {"eegnet", "lstm", "uercm"}

(* torch.nn.Sigmoid() on the scores the files hold, to three decimals *)
Sigmoid(x) ==
    CASE x = -2000 -> 119
      [] x = -1000 -> 269
      [] x = 0     -> 500
      [] x = 100   -> 525
      [] x = 200   -> 550
      [] x = 300   -> 574
      [] x = 800   -> 690
      [] x = 900   -> 711
      [] x = 1000  -> 731
      [] x = 2000  -> 881

Mask(results) == [i \in 1..Len(results) |-> results[i].model \in SigmoidModels]

(* The positions of a table that a boolean mask selects, in order *)
RECURSIVE MaskedPositions(_, _)
MaskedPositions(mask, i) ==
    IF i > Len(mask) THEN <<>>
    ELSE (IF mask[i] THEN <<i>> ELSE <<>>) \o MaskedPositions(mask, i + 1)

(* masked_results['predictions'].apply(sigmoid): a series that keeps the *)
(* index labels of the masked rows                                        *)
MaskedSigmoid(results, mask) ==
    LET pos == MaskedPositions(mask, 1)
    IN  [k \in 1..Len(pos) |->
            [index |-> results[pos[k]].index,
             value |-> Sigmoid(results[pos[k]].predictions)]]

(* results.loc[mask, 'predictions'] = ser.  pandas aligns ser with the    *)
(* selected rows: when ser's index equals the selected index labels the   *)
(* values are taken by position; otherwise ser is reindexed by label,     *)
(* which raises when ser's labels repeat.                                 *)
LocSetByLabel(results, mask, ser) ==
    IF \E j, k \in DOMAIN ser : j /= k /\ ser[j].index = ser[k].index
    THEN [ok |-> FALSE, table |-> <<>>]
    ELSE [ok |-> TRUE,
          table |-> [i \in 1..Len(results) |->
              IF mask[i] /\ \E k \in DOMAIN ser : ser[k].index = results[i].index
              THEN [results[i] EXCEPT !.predictions =
                      ser[CHOOSE k \in DOMAIN ser : ser[k].index = results[i].index].value]
              ELSE results[i]]]

(* Mutant: the assignment always aligns the series by index label *)
LocSetAligned(results, mask, ser) == LocSetByLabel(results, mask, ser)

LocSet(results, mask, ser) ==
    LET pos == MaskedPositions(mask, 1)
    IN  IF [k \in 1..Len(pos) |-> results[pos[k]].index] = [k \in 1..Len(ser) |-> ser[k].index]
        THEN [ok |-> TRUE,
              table |-> [i \in 1..Len(results) |->
                  IF mask[i]
                  THEN [results[i] EXCEPT !.predictions =
                          ser[CHOOSE k \in 1..Len(pos) : pos[k] = i].value]
                  ELSE results[i]]]
        ELSE LocSetByLabel(results, mask, ser)

Normalize(results) ==
    LET mask == Mask(results)
    IN  LocSet(results, mask, MaskedSigmoid(results, mask))

---------------------------------------------------------------------------
(* Metric aggregator: torchmetrics' binary metrics on one group x *)

(* A number that may be NaN *)
Num(v) == [nan |-> FALSE, val |-> v]
NaN == [nan |-> TRUE, val |-> 0]

Predictions(x) == [i \in 1..Len(x) |-> x[i].predictions]
Targets(x) == [i \in 1..Len(x) |-> x[i].targets]

(* The metrics' default decision threshold, 0.5 *)
Threshold == 500

(* The metrics validate their arguments: a target is 0 or 1 *)
ValidTargets(x) == \A i \in DOMAIN x : x[i].targets \in {0, 1}

(* Floating-point predictions that are not all within [0, 1] are taken to *)
(* be logits, and the metric applies a sigmoid to every one of them       *)
FormatProbs(preds) ==
    IF \A i \in DOMAIN preds : 0 <= preds[i] /\ preds[i] <= 1000
    THEN preds
    ELSE [i \in DOMAIN preds |-> Sigmoid(preds[i])]

(* Mutant: a prediction equal to the threshold counts as positive *)
FormatLabelsAtLeast(preds) ==
    LET probs == FormatProbs(preds)
    IN  [i \in DOMAIN preds |-> IF probs[i] >= Threshold THEN 1 ELSE 0]

(* preds > threshold *)
FormatLabels(preds) ==
    LET probs == FormatProbs(preds)
    IN  [i \in DOMAIN preds |-> IF probs[i] > Threshold THEN 1 ELSE 0]

(* The confusion matrix of targets against predicted labels *)
ConfusionMatrix(x, labels) ==
    [tp |-> Cardinality({i \in DOMAIN x : labels[i] = 1 /\ x[i].targets = 1}),
     fp |-> Cardinality({i \in DOMAIN x : labels[i] = 1 /\ x[i].targets = 0}),
     tn |-> Cardinality({i \in DOMAIN x : labels[i] = 0 /\ x[i].targets = 0}),
     fn |-> Cardinality({i \in DOMAIN x : labels[i] = 0 /\ x[i].targets = 1})]

(* The confusion matrix of the group *)
StatScores(x) == ConfusionMatrix(x, FormatLabels(Predictions(x)))

(* a / b in thousandths, and 0 where b is 0 *)
SafeDivide(a, b) == IF b = 0 THEN 0 ELSE RoundDiv(1000 * a, b)

(* tp / (tp + fp), and 0 where the denominator is 0 *)
PrecisionReduce(c) == SafeDivide(c.tp, c.tp + c.fp)

BinaryPrecision(x) ==
    [ok |-> ValidTargets(x), value |-> PrecisionReduce(StatScores(x))]

(* tp / (tp + fn), and 0 where the denominator is 0 *)
RecallReduce(c) == SafeDivide(c.tp, c.tp + c.fn)

BinaryRecall(x) ==
    [ok |-> ValidTargets(x), value |-> RecallReduce(StatScores(x))]

(* |num| / sqrt(den) in thousandths, rounded down, for 0 < den *)
RootRatio(abs, den) ==
    CHOOSE m \in 0..1000 :
        /\ m * m * den <= 1000000 * abs * abs
        /\ m = 1000 \/ (m + 1) * (m + 1) * den > 1000000 * abs * abs

MatthewsValue(num, den) ==
    IF den = 0 THEN 0
    ELSE IF num < 0 THEN -RootRatio(-num, den) ELSE RootRatio(num, den)

(* (tp*tn - fp*fn) / sqrt((tp+fp)(tp+fn)(tn+fp)(tn+fn)); 1 and -1 when all *)
(* predictions are right or all wrong, 0 for the other zero denominators   *)
MatthewsReduce(c) ==
    IF c.fp + c.fn = 0 /\ c.tp + c.tn /= 0 THEN 1000
    ELSE IF c.tp + c.tn = 0 /\ c.fp + c.fn /= 0 THEN -1000
    ELSE MatthewsValue(c.tp * c.tn - c.fp * c.fn,
                       (c.tp + c.fp) * (c.tp + c.fn) * (c.tn + c.fp) * (c.tn + c.fn))

BinaryMatthewsCorrCoef(x) ==
    [ok |-> ValidTargets(x), value |-> MatthewsReduce(StatScores(x))]

KappaValue(num, expected) ==
    IF expected = 0 THEN NaN
    ELSE IF num < 0 THEN Num(-RoundDiv(1000 * (-num), expected))
    ELSE Num(RoundDiv(1000 * num, expected))

(* 1 - observed disagreement / expected disagreement; NaN (0/0) when the  *)
(* expected disagreement is 0                                             *)
KappaReduce(c, expected) ==
    KappaValue(expected - (c.fp + c.fn) * (c.tp + c.fp + c.tn + c.fn), expected)

ExpectedDisagreement(c) ==
    (c.tp + c.fn) * (c.tn + c.fn) + (c.tn + c.fp) * (c.tp + c.fp)

BinaryCohenKappa(x) ==
    [ok |-> ValidTargets(x),
     value |-> KappaReduce(StatScores(x), ExpectedDisagreement(StatScores(x)))]

(* Area under the exact ROC curve: the share of (positive, negative) pairs *)
(* ranked right, a tie counting half; 0 when a class is missing           *)
AurocReduce(x, probs) ==
    LET pairs == {pr \in (DOMAIN x) \X (DOMAIN x) :
                     x[pr[1]].targets = 1 /\ x[pr[2]].targets = 0}
        right == Cardinality({pr \in pairs : probs[pr[1]] > probs[pr[2]]})
        ties == Cardinality({pr \in pairs : probs[pr[1]] = probs[pr[2]]})
    IN  SafeDivide(2 * right + ties, 2 * Cardinality(pairs))

BinaryAUROC(x) ==
    [ok |-> ValidTargets(x), value |-> AurocReduce(x, FormatProbs(Predictions(x)))]

KeyRecord(k) ==
    [seed |-> k[1], user |-> k[2], model |-> k[3], strategy |-> k[4],
     reading_task |-> k[5]]

(* The key columns of a row, for results.groupby([...]) *)
GroupKey(r) == Key(r)

(* Mutant: a group takes the rows of every user of its configuration *)
GroupByAcrossUsers(results) ==
    LET keys == SortKeys({GroupKey(results[i]) : i \in DOMAIN results})
    IN  [g \in 1..Len(keys) |->
            [key |-> keys[g],
             x |-> SelectSeq(results, LAMBDA r :
                      <<r.seed, r.model, r.strategy, r.reading_task>> =
                      <<keys[g][1], keys[g][3], keys[g][4], keys[g][5]>>)]]

(* groups: the distinct keys in sorted order, each with its rows *)
GroupBy(results) ==
    LET keys == SortKeys({GroupKey(results[i]) : i \in DOMAIN results})
    IN  [g \in 1..Len(keys) |->
            [key |-> keys[g],
             x |-> SelectSeq(results, LAMBDA r : GroupKey(r) = keys[g])]]

(* The metric that fills column col *)
Metric(col, x) ==
    CASE col = "mcc" -> BinaryMatthewsCorrCoef(x)
      [] col = "kappa" -> BinaryCohenKappa(x)
      [] col = "precision" -> BinaryPrecision(x)
      [] col = "recall" -> BinaryRecall(x)
      [] col = "auc" -> BinaryAUROC(x)

(* groups.apply(metric).reset_index() with column 0 renamed to col: one   *)
(* row per group; a metric that raises for one group raises for the call  *)
GroupsApply(groups, col) ==
    [ok |-> \A g \in DOMAIN groups : Metric(col, groups[g].x).ok,
     table |-> [g \in DOMAIN groups |->
                  KeyRecord(groups[g].key) @@ (col :> Metric(col, groups[g].x).value)]]

(* Mutant: the join leaves 'user' out of its key columns *)
MergeRowNoUser(l, right) ==
    LET m == SelectSeq(right, LAMBDA r :
                 <<r.seed, r.model, r.strategy, r.reading_task>> =
                 <<l.seed, l.model, l.strategy, l.reading_task>>)
    IN  [j \in 1..Len(m) |-> l @@ m[j]]

(* left.merge(right, on=KeyCols): the inner join, in the order of left *)
MergeRow(l, right) ==
    LET m == SelectSeq(right, LAMBDA r : Key(r) = Key(l))
    IN  [j \in 1..Len(m) |-> l @@ m[j]]

Merge(left, right) ==
    Flatten([i \in 1..Len(left) |-> MergeRow(left[i], right)])

---------------------------------------------------------------------------
(* Reporter *)

(* Mutant: the summary covers mcc as well *)
ReportMetricsWithMcc == <<"auc", "precision", "recall", "mcc">>

ReportMetrics == <<"auc", "precision", "recall">>

(* Series.unique(): the distinct values in the order they first appear *)
RECURSIVE Unique(_)
Unique(s) ==
    IF s = <<>> THEN <<>>
    ELSE LET front == Unique(SubSeq(s, 1, Len(s) - 1))
             last == s[Len(s)]
         IN  IF last \in Range(front) THEN front ELSE Append(front, last)

Models(metrics) == Unique([i \in 1..Len(metrics) |-> metrics[i].model])

(* Mutant: the strategies in first-seen order *)
StrategiesForward(metrics) ==
    Unique([i \in 1..Len(metrics) |-> metrics[i].strategy])

(* metrics.strategy.unique()[::-1] *)
Strategies(metrics) ==
    Reverse(Unique([i \in 1..Len(metrics) |-> metrics[i].strategy]))

(* Mutant: the subset is taken by model alone *)
SelectedByModel(metrics, model, strategy, metric) ==
    LET rows == SelectSeq(metrics, LAMBDA r : r.model = model)
    IN  [i \in 1..Len(rows) |-> rows[i][metric]]

(* metrics[(metrics['model'] == model) & (metrics['strategy'] == strategy)][metric] *)
Selected(metrics, model, strategy, metric) ==
    LET rows == SelectSeq(metrics, LAMBDA r : r.model = model /\ r.strategy = strategy)
    IN  [i \in 1..Len(rows) |-> rows[i][metric]]

(* Series.mean(): the quotient num / den, NaN for no value *)
Mean(vals) ==
    IF Len(vals) = 0 THEN [nan |-> TRUE, num |-> 0, den |-> 1]
    ELSE [nan |-> FALSE, num |-> SumSeq(vals), den |-> Len(vals)]

(* Series.std(): the sample standard deviation (divisor n - 1), held as   *)
(* the variance num / den of which it is the root; NaN below two values   *)
Std(vals) ==
    LET n == Len(vals)
        s == SumSeq(vals)
        sq == SumSeq([i \in 1..n |-> vals[i] * vals[i]])
    IN  IF n < 2 THEN [nan |-> TRUE, num |-> 0, den |-> 1]
        ELSE [nan |-> FALSE, num |-> n * sq - s * s, den |-> n * (n - 1)]

(* '%.2f' of a mean: hundredths, from thousandths *)
FormatMean(m) ==
    IF m.nan THEN NaN ELSE Num(RoundDiv(m.num, 10 * m.den))

(* '%.2f' of a standard deviation: the hundredths r nearest the root *)
FormatStd(s) ==
    IF s.nan THEN NaN
    ELSE Num(CHOOSE r \in 0..100 :
                /\ r = 0 \/ 25 * (2 * r - 1) * (2 * r - 1) * s.den <= s.num
                /\ r = 100 \/ 25 * (2 * r + 1) * (2 * r + 1) * s.den > s.num)

---------------------------------------------------------------------------
(* The program *)

VARIABLES
    dir,            \* the files of args.project_path
    pc,             \* where the program is
    exc,            \* the call that raised, "" while none has
    file_pattern,   \* run's argument
    filepaths,      \* run's locals, by their names in the source
    fp_i,
    results,
    groups,
    mcc,
    kappa,
    precision,
    recall,
    auc,
    metrics,
    model_i,
    strategy_i,
    metric_i,
    latex_output,
    log             \* the records sent to logging, in order

locals == <<filepaths, fp_i, results, groups, mcc, kappa, precision, recall,
            auc, metrics, model_i, strategy_i, metric_i, latex_output>>

vars == <<dir, pc, exc, file_pattern, locals, log>>

WordPattern == [prefix |-> "w_relevance_seed", ext |-> ".pkl"]
SentencePattern == [prefix |-> "s_relevance_seed", ext |-> ".pkl"]
NoPattern == [prefix |-> "", ext |-> ""]

(* One logging call: its level, its call site and its arguments *)
Record(level, kind, args) == [level |-> level, kind |-> kind, args |-> args]

(* A frame of run that holds nothing yet *)
FreshLocals ==
    /\ filepaths' = <<>>
    /\ fp_i' = 0
    /\ results' = <<>>
    /\ groups' = <<>>
    /\ mcc' = <<>>
    /\ kappa' = <<>>
    /\ precision' = <<>>
    /\ recall' = <<>>
    /\ auc' = <<>>
    /\ metrics' = <<>>
    /\ model_i' = 0
    /\ strategy_i' = 0
    /\ metric_i' = 0
    /\ latex_output' = <<>>

(* The project directories: the log file, and at most MaxFiles files of   *)
(* each kind                                                              *)
Directories ==
    {{LogFile} \cup w \cup s :
        w \in {x \in SUBSET WordFiles : Cardinality(x) <= MaxFiles},
        s \in {x \in SUBSET SentenceFiles : Cardinality(x) <= MaxFiles}}

Init ==
    /\ dir \in Directories
    /\ pc = "main"
    /\ exc = ""
    /\ file_pattern = NoPattern
    /\ filepaths = <<>>
    /\ fp_i = 0
    /\ results = <<>>
    /\ groups = <<>>
    /\ mcc = <<>>
    /\ kappa = <<>>
    /\ precision = <<>>
    /\ recall = <<>>
    /\ auc = <<>>
    /\ metrics = <<>>
    /\ model_i = 0
    /\ strategy_i = 0
    /\ metric_i = 0
    /\ latex_output = <<>>
    /\ log = <<>>

(* The pattern of main's first call of run *)
FirstPattern == WordPattern

(* Mutant: main ends after its first call of run *)
NextPatternNone(pattern) == NoPattern

(* The pattern of main's next call of run, NoPattern after the last *)
NextPattern(pattern) ==
    IF pattern = WordPattern THEN SentencePattern ELSE NoPattern

Generating(pattern) ==
    IF pattern = WordPattern THEN "word relevance" ELSE "sentence relevance"

(* __main__ up to its first call of run *)
Main ==
    /\ pc = "main"
    /\ log' = log \o << Record("INFO", "Args: %s", <<>>),
                        Record("INFO", "Generating results for %s...",
                               <<Generating(FirstPattern)>>) >>
    /\ file_pattern' = FirstPattern
    /\ pc' = "run"
    /\ UNCHANGED <<dir, exc, locals>>

(* Mutant: run without its check for an empty glob result *)
GlobNoGuard ==
    /\ pc = "run"
    /\ \E found \in Orders(GlobMatch(dir, file_pattern)) :
          /\ filepaths' = found
          /\ results' = <<>>
          /\ fp_i' = 1
          /\ pc' = "read"
    /\ UNCHANGED <<dir, exc, file_pattern, groups, mcc, kappa, precision, recall, auc,
                   metrics, model_i, strategy_i, metric_i, latex_output, log>>

(* run: glob, and the early return when nothing matches *)
Glob ==
    /\ pc = "run"
    /\ \E found \in Orders(GlobMatch(dir, file_pattern)) :
          /\ filepaths' = found
          /\ IF found = <<>>
             THEN /\ log' = Append(log, Record("WARNING", "No files found. Quitting...", <<>>))
                  /\ pc' = "return"
                  /\ UNCHANGED <<results, fp_i>>
             ELSE /\ results' = <<>>
                  /\ fp_i' = 1
                  /\ pc' = "read"
                  /\ UNCHANGED log
    /\ UNCHANGED <<dir, exc, file_pattern, groups, mcc, kappa, precision, recall, auc,
                   metrics, model_i, strategy_i, metric_i, latex_output>>

(* Mutant: a file that does not unpickle is skipped *)
ReadFileSkipping ==
    /\ pc = "read"
    /\ fp_i <= Len(filepaths)
    /\ log' = Append(log, Record("INFO", "Reading %s", <<filepaths[fp_i]>>))
    /\ results' = IF Contents[filepaths[fp_i].content].readable
                  THEN Append(results, ReadPickle(filepaths[fp_i]))
                  ELSE results
    /\ fp_i' = fp_i + 1
    /\ UNCHANGED <<dir, pc, exc, file_pattern, filepaths, groups, mcc, kappa, precision,
                   recall, auc, metrics, model_i, strategy_i, metric_i, latex_output>>

(* One pass of the loop over filepaths; read_pickle raises on a file that *)
(* does not unpickle                                                      *)
ReadFile ==
    /\ pc = "read"
    /\ fp_i <= Len(filepaths)
    /\ log' = Append(log, Record("INFO", "Reading %s", <<filepaths[fp_i]>>))
    /\ IF Contents[filepaths[fp_i].content].readable
       THEN /\ results' = Append(results, ReadPickle(filepaths[fp_i]))
            /\ fp_i' = fp_i + 1
            /\ pc' = "read"
            /\ UNCHANGED exc
       ELSE /\ pc' = "raised"
            /\ exc' = "read_pickle"
            /\ UNCHANGED <<results, fp_i>>
    /\ UNCHANGED <<dir, file_pattern, filepaths, groups, mcc, kappa, precision,
                   recall, auc, metrics, model_i, strategy_i, metric_i, latex_output>>

ConcatResults ==
    /\ pc = "read"
    /\ fp_i > Len(filepaths)
    /\ LET r == Concat(results)
       IN  IF r.ok
           THEN results' = r.table /\ pc' = "sigmoid" /\ UNCHANGED exc
           ELSE pc' = "raised" /\ exc' = "concat" /\ UNCHANGED results
    /\ UNCHANGED <<dir, file_pattern, filepaths, fp_i, groups, mcc, kappa, precision,
                   recall, auc, metrics, model_i, strategy_i, metric_i, latex_output, log>>

ApplySigmoid ==
    /\ pc = "sigmoid"
    /\ LET r == Normalize(results)
       IN  IF r.ok
           THEN results' = r.table /\ pc' = "groupby" /\ UNCHANGED exc
           ELSE pc' = "raised" /\ exc' = "loc" /\ UNCHANGED results
    /\ UNCHANGED <<dir, file_pattern, filepaths, fp_i, groups, mcc, kappa, precision,
                   recall, auc, metrics, model_i, strategy_i, metric_i, latex_output, log>>

GroupResults ==
    /\ pc = "groupby"
    /\ groups' = GroupBy(results)
    /\ pc' = "mcc"
    /\ UNCHANGED <<dir, exc, file_pattern, filepaths, fp_i, results, mcc, kappa, precision,
                   recall, auc, metrics, model_i, strategy_i, metric_i, latex_output, log>>

ComputeMcc ==
    /\ pc = "mcc"
    /\ LET r == GroupsApply(groups, "mcc")
       IN  IF r.ok
           THEN mcc' = r.table /\ pc' = "kappa" /\ UNCHANGED exc
           ELSE pc' = "raised" /\ exc' = "BinaryMatthewsCorrCoef" /\ UNCHANGED mcc
    /\ UNCHANGED <<dir, file_pattern, filepaths, fp_i, results, groups, kappa, precision,
                   recall, auc, metrics, model_i, strategy_i, metric_i, latex_output, log>>

ComputeKappa ==
    /\ pc = "kappa"
    /\ LET r == GroupsApply(groups, "kappa")
       IN  IF r.ok
           THEN kappa' = r.table /\ pc' = "precision" /\ UNCHANGED exc
           ELSE pc' = "raised" /\ exc' = "BinaryCohenKappa" /\ UNCHANGED kappa
    /\ UNCHANGED <<dir, file_pattern, filepaths, fp_i, results, groups, mcc, precision,
                   recall, auc, metrics, model_i, strategy_i, metric_i, latex_output, log>>

ComputePrecision ==
    /\ pc = "precision"
    /\ LET r == GroupsApply(groups, "precision")
       IN  IF r.ok
           THEN precision' = r.table /\ pc' = "recall" /\ UNCHANGED exc
           ELSE pc' = "raised" /\ exc' = "BinaryPrecision" /\ UNCHANGED precision
    /\ UNCHANGED <<dir, file_pattern, filepaths, fp_i, results, groups, mcc, kappa,
                   recall, auc, metrics, model_i, strategy_i, metric_i, latex_output, log>>

ComputeRecall ==
    /\ pc = "recall"
    /\ LET r == GroupsApply(groups, "recall")
       IN  IF r.ok
           THEN recall' = r.table /\ pc' = "auc" /\ UNCHANGED exc
           ELSE pc' = "raised" /\ exc' = "BinaryRecall" /\ UNCHANGED recall
    /\ UNCHANGED <<dir, file_pattern, filepaths, fp_i, results, groups, mcc, kappa,
                   precision, auc, metrics, model_i, strategy_i, metric_i, latex_output, log>>

ComputeAuc ==
    /\ pc = "auc"
    /\ LET r == GroupsApply(groups, "auc")
       IN  IF r.ok
           THEN auc' = r.table /\ pc' = "merge_precision" /\ UNCHANGED exc
           ELSE pc' = "raised" /\ exc' = "BinaryAUROC" /\ UNCHANGED auc
    /\ UNCHANGED <<dir, file_pattern, filepaths, fp_i, results, groups, mcc, kappa,
                   precision, recall, metrics, model_i, strategy_i, metric_i, latex_output, log>>

MergePrecision ==
    /\ pc = "merge_precision"
    /\ metrics' = Merge(mcc, precision)
    /\ pc' = "merge_kappa"
    /\ UNCHANGED <<dir, exc, file_pattern, filepaths, fp_i, results, groups, mcc, kappa,
                   precision, recall, auc, model_i, strategy_i, metric_i, latex_output, log>>

MergeKappa ==
    /\ pc = "merge_kappa"
    /\ metrics' = Merge(metrics, kappa)
    /\ pc' = "merge_recall"
    /\ UNCHANGED <<dir, exc, file_pattern, filepaths, fp_i, results, groups, mcc, kappa,
                   precision, recall, auc, model_i, strategy_i, metric_i, latex_output, log>>

MergeRecall ==
    /\ pc = "merge_recall"
    /\ metrics' = Merge(metrics, recall)
    /\ pc' = "merge_auc"
    /\ UNCHANGED <<dir, exc, file_pattern, filepaths, fp_i, results, groups, mcc, kappa,
                   precision, recall, auc, model_i, strategy_i, metric_i, latex_output, log>>

MergeAuc ==
    /\ pc = "merge_auc"
    /\ metrics' = Merge(metrics, auc)
    /\ model_i' = 1
    /\ pc' = "for_model"
    /\ UNCHANGED <<dir, exc, file_pattern, filepaths, fp_i, results, groups, mcc, kappa,
                   precision, recall, auc, strategy_i, metric_i, latex_output, log>>

(* for model in metrics.model.unique(): the next model, or the end of run *)
ForModel ==
    /\ pc = "for_model"
    /\ IF model_i <= Len(Models(metrics))
       THEN /\ latex_output' = <<>>
            /\ strategy_i' = 1
            /\ pc' = "for_strategy"
       ELSE /\ pc' = "return"
            /\ UNCHANGED <<latex_output, strategy_i>>
    /\ UNCHANGED <<dir, exc, file_pattern, filepaths, fp_i, results, groups, mcc, kappa,
                   precision, recall, auc, metrics, model_i, metric_i, log>>

(* for strategy in metrics.strategy.unique()[::-1]: the next strategy and *)
(* its heading, or the end of the loop                                    *)
ForStrategy ==
    /\ pc = "for_strategy"
    /\ IF strategy_i <= Len(Strategies(metrics))
       THEN /\ log' = Append(log, Record("INFO", "Model: %s, Strategy: %s",
                        <<Models(metrics)[model_i], Strategies(metrics)[strategy_i]>>))
            /\ metric_i' = 1
            /\ pc' = "for_metric"
       ELSE /\ pc' = "log_latex"
            /\ UNCHANGED <<log, metric_i>>
    /\ UNCHANGED <<dir, exc, file_pattern, filepaths, fp_i, results, groups, mcc, kappa,
                   precision, recall, auc, metrics, model_i, strategy_i, latex_output>>

(* for metric in ['auc', 'precision', 'recall']: one summary line and one *)
(* LaTeX fragment, or the end of the loop                                 *)
ForMetric ==
    /\ pc = "for_metric"
    /\ IF metric_i <= Len(ReportMetrics)
       THEN LET metric == ReportMetrics[metric_i]
                vals == Selected(metrics, Models(metrics)[model_i],
                                 Strategies(metrics)[strategy_i], metric)
                mean == FormatMean(Mean(vals))
                std == FormatStd(Std(vals))
            IN  /\ log' = Append(log, Record("INFO", "%s: %.2f +- %.2f", <<metric, mean, std>>))
                /\ latex_output' = Append(latex_output, <<mean, std>>)
                /\ metric_i' = metric_i + 1
                /\ pc' = "for_metric"
                /\ UNCHANGED strategy_i
       ELSE /\ strategy_i' = strategy_i + 1
            /\ pc' = "for_strategy"
            /\ UNCHANGED <<log, latex_output, metric_i>>
    /\ UNCHANGED <<dir, exc, file_pattern, filepaths, fp_i, results, groups, mcc, kappa,
                   precision, recall, auc, metrics, model_i>>

(* logging.info(latex_output), after the strategies of one model *)
LogLatex ==
    /\ pc = "log_latex"
    /\ log' = Append(log, Record("INFO", "latex_output", <<latex_output>>))
    /\ model_i' = model_i + 1
    /\ pc' = "for_model"
    /\ UNCHANGED <<dir, exc, file_pattern, filepaths, fp_i, results, groups, mcc, kappa,
                   precision, recall, auc, metrics, strategy_i, metric_i, latex_output>>

(* run returns to __main__, which calls run again or ends *)
Return ==
    /\ pc = "return"
    /\ FreshLocals
    /\ file_pattern' = NextPattern(file_pattern)
    /\ IF NextPattern(file_pattern) = NoPattern
       THEN pc' = "done" /\ UNCHANGED log
       ELSE /\ pc' = "run"
            /\ log' = Append(log, Record("INFO", "Generating results for %s...",
                                          <<Generating(NextPattern(file_pattern))>>))
    /\ UNCHANGED <<dir, exc>>

Next ==
    \/ Main
    \/ Glob
    \/ ReadFile
    \/ ConcatResults
    \/ ApplySigmoid
    \/ GroupResults
    \/ ComputeMcc
    \/ ComputeKappa
    \/ ComputePrecision
    \/ ComputeRecall
    \/ ComputeAuc
    \/ MergePrecision
    \/ MergeKappa
    \/ MergeRecall
    \/ MergeAuc
    \/ ForModel
    \/ ForStrategy
    \/ ForMetric
    \/ LogLatex
    \/ Return

Spec == Init /\ [][Next]_vars

---------------------------------------------------------------------------
(* What the claims are stated over *)

(* The index of the log line that announces the run called name, 0 when   *)
(* there is none                                                          *)
GenIndex(name) ==
    LET at == {i \in DOMAIN log :
                  log[i].kind = "Generating results for %s..." /\ log[i].args = <<name>>}
    IN  IF at = {} THEN 0 ELSE CHOOSE i \in at : \A j \in at : i <= j

(* The log lines of the run called name: those after its announcement and *)
(* before the next announcement                                           *)
RunLog(name) ==
    LET g == GenIndex(name)
        later == {i \in DOMAIN log :
                     i > g /\ log[i].kind = "Generating results for %s..."}
        e == IF later = {} THEN Len(log)
             ELSE (CHOOSE i \in later : \A j \in later : i <= j) - 1
    IN  IF g = 0 THEN <<>> ELSE SubSeq(log, g + 1, e)

RunName(pattern) ==
    IF pattern.prefix = "w_relevance_seed" THEN "word relevance" ELSE "sentence relevance"

(* The files of the directory that a pattern matches *)
Matching(pattern) ==
    {f \in dir : f.prefix = pattern.prefix /\ f.ext = pattern.ext}

(* The rows, as written by benchmark.py, of the files a pattern matches *)
SourceRows(pattern) ==
    UNION {{Contents[f.content].rows[i] : i \in DOMAIN Contents[f.content].rows} :
              f \in Matching(pattern)}

SourceKeys(pattern) ==
    {<<r.seed, r.user, r.model, r.strategy, r.reading_task>> : r \in SourceRows(pattern)}

IsReportLine(l) ==
    l.kind \in {"Model: %s, Strategy: %s", "%s: %.2f +- %.2f", "latex_output"}

(* The summary and LaTeX lines of a run, with the headings of the pairs *)
ReportLines(name) == SelectSeq(RunLog(name), IsReportLine)

(* results holds the concatenated, normalized table *)
AfterSigmoid ==
    \/ pc \in {"groupby", "mcc", "kappa", "precision", "recall", "auc",
               "merge_precision", "merge_kappa", "merge_recall", "merge_auc",
               "for_model", "for_strategy", "for_metric", "log_latex"}
    \/ pc = "return" /\ filepaths /= <<>>
    \/ pc = "raised" /\ exc \notin {"read_pickle", "concat", "loc"}

(* metrics holds the table merged from the five metric tables *)
Merged ==
    \/ pc \in {"for_model", "for_strategy", "for_metric", "log_latex"}
    \/ pc = "return" /\ filepaths /= <<>>

(* C1: a run whose pattern matches no file logs exactly one warning and   *)
(* returns: it raises nothing, loads nothing, computes nothing, and logs  *)
(* no summary line and no LaTeX line.                                     *)
C1_NoFilesWarnsAndReturns ==
    \A pattern \in {WordPattern, SentencePattern} :
        (Matching(pattern) = {} /\ GenIndex(RunName(pattern)) > 0) =>
            LET lines == RunLog(RunName(pattern))
                warning == [level |-> "WARNING", kind |-> "No files found. Quitting...",
                            args |-> <<>>]
            IN  /\ file_pattern = pattern =>
                    /\ pc \in {"run", "return"}
                    /\ exc = ""
                    /\ lines = IF pc = "run" THEN <<>> ELSE <<warning>>
                    /\ results = <<>> /\ groups = <<>> /\ metrics = <<>>
                    /\ mcc = <<>> /\ kappa = <<>> /\ precision = <<>>
                    /\ recall = <<>> /\ auc = <<>> /\ latex_output = <<>>
                /\ file_pattern /= pattern => lines = <<warning>>

C1_Witness ==
    /\ pc = "return"
    /\ Matching(file_pattern) = {}
    /\ log[Len(log)].level = "WARNING"

(* C2: after the normalizer every row of the concatenated table, whatever *)
(* index labels the files share, holds the sigmoid of its own raw         *)
(* prediction when its model is eegnet, lstm or uercm and its raw         *)
(* prediction otherwise, and the step does not raise.                     *)
C2_SigmoidPerRow ==
    /\ exc /= "loc"
    /\ AfterSigmoid =>
         LET raw == Flatten([k \in 1..Len(filepaths) |-> ReadPickle(filepaths[k])])
         IN  /\ Len(results) = Len(raw)
             /\ \A i \in 1..Len(raw) :
                    results[i] =
                        [raw[i] EXCEPT !.predictions =
                            IF raw[i].model \in {"eegnet", "lstm", "uercm"}
                            THEN Sigmoid(raw[i].predictions)
                            ELSE raw[i].predictions]

C2_Witness ==
    /\ pc = "groupby"
    /\ \E i, j \in DOMAIN results :
          /\ i /= j
          /\ results[i].index = results[j].index
          /\ results[i].model = "eegnet" /\ results[j].model = "eegnet"
          /\ results[i].predictions /= results[j].predictions
    /\ \E i \in DOMAIN results : results[i].model = "svm"

(* C3: the merged table has one row for every group key of the loaded     *)
(* files and no other row, each row with the five metric columns; every   *)
(* one of the four merges keeps exactly these keys.                       *)
C3_MergeComplete ==
    LET keys == SourceKeys(file_pattern)
        KeysKept == /\ Len(metrics) = Cardinality(keys)
                    /\ {Key(metrics[i]) : i \in DOMAIN metrics} = keys
    IN  /\ pc \in {"merge_kappa", "merge_recall", "merge_auc"} => KeysKept
        /\ Merged =>
              /\ KeysKept
              /\ \A i \in DOMAIN metrics :
                    DOMAIN metrics[i] =
                        {"seed", "user", "model", "strategy", "reading_task",
                         "mcc", "precision", "kappa", "recall", "auc"}

C3_Witness ==
    /\ pc = "for_model"
    /\ Len(filepaths) >= 2
    /\ Len(metrics) >= 3
    /\ \E i, j \in DOMAIN metrics :
          metrics[i].user /= metrics[j].user /\ metrics[i].seed = metrics[j].seed

(* The rows of the loaded files with the normalizer applied to each *)
NormalizedSource ==
    LET rows == Flatten([k \in 1..Len(filepaths) |-> Contents[filepaths[k].content].rows])
    IN  [i \in 1..Len(rows) |->
            [rows[i] EXCEPT !.predictions =
                IF rows[i].model \in {"eegnet", "lstm", "uercm"}
                THEN Sigmoid(rows[i].predictions)
                ELSE rows[i].predictions]]

(* The source rows whose five key fields are those of metric row m *)
OwnRows(m) ==
    SelectSeq(NormalizedSource, LAMBDA r :
        /\ r.seed = m.seed /\ r.user = m.user /\ r.model = m.model
        /\ r.strategy = m.strategy /\ r.reading_task = m.reading_task)

(* C4: every metric of a row of the merged table is the metric of exactly *)
(* the source rows, of whichever file, whose five key fields equal the    *)
(* row's; rows that differ in one key field feed different metric rows.   *)
C4_MetricsPerGroup ==
    Merged =>
        /\ \A i, j \in DOMAIN metrics : Key(metrics[i]) = Key(metrics[j]) => i = j
        /\ \A i \in DOMAIN metrics :
              LET own == OwnRows(metrics[i])
              IN  /\ metrics[i].mcc = BinaryMatthewsCorrCoef(own).value
                  /\ metrics[i].kappa = BinaryCohenKappa(own).value
                  /\ metrics[i].precision = BinaryPrecision(own).value
                  /\ metrics[i].recall = BinaryRecall(own).value
                  /\ metrics[i].auc = BinaryAUROC(own).value

C4_Witness ==
    /\ pc = "for_model"
    /\ \E i, j \in DOMAIN metrics :
          /\ metrics[i].user /= metrics[j].user
          /\ [metrics[i] EXCEPT !.user = 0, !.mcc = 0, !.kappa = 0, !.precision = 0,
                                !.recall = 0, !.auc = 0]
             = [metrics[j] EXCEPT !.user = 0, !.mcc = 0, !.kappa = 0, !.precision = 0,
                                  !.recall = 0, !.auc = 0]
          /\ metrics[i].precision /= metrics[j].precision
    /\ \E a, b \in DOMAIN filepaths :
          /\ a /= b
          /\ \E ra \in Range(Contents[filepaths[a].content].rows),
                rb \in Range(Contents[filepaths[b].content].rows) : Key(ra) = Key(rb)

(* The models and the strategies of the merged table *)
ModelSet == {metrics[i].model : i \in DOMAIN metrics}
StrategySet == {metrics[i].strategy : i \in DOMAIN metrics}

(* run has logged its whole report and is about to return *)
Reported == pc = "return" /\ filepaths /= <<>>

(* C5: the report of a run is one block per model; a block holds, for     *)
(* every strategy, a heading and exactly three summary lines, for auc,    *)
(* precision and recall in this order, and ends with the model's one      *)
(* LaTeX line, whose 3 x (number of strategies) fragments are the means   *)
(* and deviations of the block's summary lines in their order.            *)
C5_ReportLayout ==
    Reported =>
        LET R == ReportLines(RunName(file_pattern))
            n == Cardinality(StrategySet)
            B == 4 * n + 1
            names == <<"auc", "precision", "recall">>
        IN  /\ Len(R) = Cardinality(ModelSet) * B
            /\ {R[(a - 1) * B + 1].args[1] : a \in 1..Cardinality(ModelSet)} = ModelSet
            /\ \A a \in 1..Cardinality(ModelSet) :
                  LET base == (a - 1) * B
                      latex == R[a * B]
                  IN  /\ latex.kind = "latex_output"
                      /\ Len(latex.args[1]) = 3 * n
                      /\ {R[base + (b - 1) * 4 + 1].args[2] : b \in 1..n} = StrategySet
                      /\ \A b \in 1..n :
                            LET h == base + (b - 1) * 4 + 1
                            IN  /\ R[h].kind = "Model: %s, Strategy: %s"
                                /\ R[h].args[1] = R[base + 1].args[1]
                                /\ \A c \in 1..3 :
                                      /\ R[h + c].kind = "%s: %.2f +- %.2f"
                                      /\ R[h + c].args[1] = names[c]
                                      /\ latex.args[1][(b - 1) * 3 + c] =
                                             <<R[h + c].args[2], R[h + c].args[3]>>

C5_Witness ==
    /\ Reported
    /\ Cardinality(ModelSet) >= 2
    /\ Cardinality(StrategySet) >= 2

(* Sums over the metric rows at the positions I *)
RECURSIVE SumAt(_, _)
SumAt(I, col) ==
    IF I = {} THEN 0
    ELSE LET i == CHOOSE x \in I : TRUE
         IN  metrics[i][col] + SumAt(I \ {i}, col)

RECURSIVE SumSqAt(_, _)
SumSqAt(I, col) ==
    IF I = {} THEN 0
    ELSE LET i == CHOOSE x \in I : TRUE
         IN  metrics[i][col] * metrics[i][col] + SumSqAt(I \ {i}, col)

(* The heading above line j of a run's log *)
HeadingOf(lines, j) ==
    lines[CHOOSE h \in 1..j :
            /\ lines[h].kind = "Model: %s, Strategy: %s"
            /\ \A k \in (h + 1)..j : lines[k].kind /= "Model: %s, Strategy: %s"]

(* C6: the mean and the deviation of a summary line are, to two decimals, *)
(* the mean and the sample standard deviation (divisor n - 1) of the      *)
(* metric over exactly the rows of the merged table with the heading's    *)
(* model and strategy: NaN mean for no row, NaN deviation below two rows. *)
C6_MeanStdOverPair ==
    Merged =>
        LET lines == RunLog(RunName(file_pattern))
        IN  \A j \in DOMAIN lines :
                lines[j].kind = "%s: %.2f +- %.2f" =>
                    LET head == HeadingOf(lines, j)
                        col == lines[j].args[1]
                        mean == lines[j].args[2]
                        std == lines[j].args[3]
                        I == {i \in DOMAIN metrics :
                                 /\ metrics[i].model = head.args[1]
                                 /\ metrics[i].strategy = head.args[2]}
                        n == Cardinality(I)
                        s == SumAt(I, col)
                        q == n * SumSqAt(I, col) - s * s
                        d == n * (n - 1)
                    IN  /\ mean.nan <=> n = 0
                        /\ n > 0 => /\ (10 * mean.val - 5) * n <= s
                                    /\ s < (10 * mean.val + 5) * n
                        /\ std.nan <=> n < 2
                        /\ n >= 2 =>
                              /\ std.val >= 0
                              /\ std.val = 0 \/
                                   (10 * std.val - 5) * (10 * std.val - 5) * d <= q
                              /\ (10 * std.val + 5) * (10 * std.val + 5) * d > q

(* auc 0.8, 0.9 and 1.0 over three seeds of eegnet, strategy A, reported  *)
(* as 0.90 +- 0.10                                                        *)
C6_Witness ==
    /\ Merged
    /\ {<<metrics[i].seed, metrics[i].auc>> :
            i \in {k \in DOMAIN metrics :
                      metrics[k].model = "eegnet" /\ metrics[k].strategy = "A"}}
         = {<<1, 1000>>, <<2, 800>>, <<3, 900>>}
    /\ \E j \in DOMAIN log :
          /\ j > 1
          /\ log[j].kind = "%s: %.2f +- %.2f"
          /\ log[j].args = <<"auc", [nan |-> FALSE, val |-> 90], [nan |-> FALSE, val |-> 10]>>
          /\ log[j - 1].kind = "Model: %s, Strategy: %s"
          /\ log[j - 1].args = <<"eegnet", "A">>

(* precision, recall and auc of metric row m are those the claim gives:   *)
(* with a row predicted positive exactly when its normalized prediction   *)
(* exceeds 0.5, precision is TP / (TP + FP) and recall TP / (TP + FN),    *)
(* and all three are 1.0 when both classes are present, every target-1    *)
(* row is above 0.5 and every target-0 row below.                         *)
AtThresholdHalf(m) ==
    LET own == OwnRows(m)
        pos == {i \in DOMAIN own : own[i].targets = 1}
        neg == {i \in DOMAIN own : own[i].targets = 0}
        tp == Cardinality({i \in pos : own[i].predictions > 500})
        fp == Cardinality({i \in neg : own[i].predictions > 500})
        fn == Cardinality({i \in pos : own[i].predictions <= 500})
    IN  /\ tp + fp > 0 => m.precision = RoundDiv(1000 * tp, tp + fp)
        /\ tp + fn > 0 => m.recall = RoundDiv(1000 * tp, tp + fn)
        /\ ( /\ pos /= {} /\ neg /= {}
             /\ \A i \in pos : own[i].predictions > 500
             /\ \A i \in neg : own[i].predictions < 500 )
           => m.precision = 1000 /\ m.recall = 1000 /\ m.auc = 1000

(* Every normalized prediction of the group of m lies in [0, 1] *)
InUnitInterval(m) ==
    \A r \in Range(OwnRows(m)) : 0 <= r.predictions /\ r.predictions <= 1000

(* C7 as stated: it holds of every group. *)
C7_Original ==
    Merged => \A i \in DOMAIN metrics : AtThresholdHalf(metrics[i])

(* C7, amended: it holds of every group whose normalized predictions all  *)
(* lie in [0, 1], as those of eegnet, lstm and uercm always do.           *)
C7_ThresholdWithinUnitInterval ==
    Merged =>
        \A i \in DOMAIN metrics :
            InUnitInterval(metrics[i]) => AtThresholdHalf(metrics[i])

(* predictions [0.9, 0.2, 0.8, 0.1] with targets [1, 0, 1, 0] *)
C7_Witness ==
    /\ Merged
    /\ \E i \in DOMAIN metrics :
          /\ [k \in DOMAIN OwnRows(metrics[i]) |->
                 <<OwnRows(metrics[i])[k].predictions, OwnRows(metrics[i])[k].targets>>]
             = << <<900, 1>>, <<200, 0>>, <<800, 1>>, <<100, 0>> >>
          /\ metrics[i].precision = 1000
          /\ metrics[i].recall = 1000
          /\ metrics[i].auc = 1000
    /\ \E i \in DOMAIN metrics :
          /\ metrics[i].model = "eegnet"
          /\ metrics[i].precision \notin {0, 1000}

(* The position at which a strategy first appears in the merged table *)
FirstSeen(strategy) ==
    CHOOSE i \in DOMAIN metrics :
        /\ metrics[i].strategy = strategy
        /\ \A j \in 1..(i - 1) : metrics[j].strategy /= strategy

(* C8: under every model the headings name every strategy of the merged   *)
(* table once, a strategy that first appears later in the table before    *)
(* one that first appears earlier; a pair of model and strategy without   *)
(* any row still gets its heading and three summary lines, all NaN.       *)
C8_StrategyOrder ==
    Reported =>
        LET lines == RunLog(RunName(file_pattern))
            H == {j \in DOMAIN lines : lines[j].kind = "Model: %s, Strategy: %s"}
        IN  /\ \A M \in ModelSet, S \in StrategySet :
                  Cardinality({j \in H : lines[j].args = <<M, S>>}) = 1
            /\ \A j, k \in H :
                  (j < k /\ lines[j].args[1] = lines[k].args[1]) =>
                      FirstSeen(lines[j].args[2]) > FirstSeen(lines[k].args[2])
            /\ \A j \in H :
                  (\A i \in DOMAIN metrics :
                       <<metrics[i].model, metrics[i].strategy>> /= lines[j].args) =>
                      \A c \in 1..3 :
                          /\ lines[j + c].kind = "%s: %.2f +- %.2f"
                          /\ lines[j + c].args[2].nan
                          /\ lines[j + c].args[3].nan

C8_Witness ==
    /\ Reported
    /\ Cardinality(StrategySet) >= 2
    /\ \E M \in ModelSet, S \in StrategySet :
          \A i \in DOMAIN metrics : <<metrics[i].model, metrics[i].strategy>> /= <<M, S>>

(* Loading or computing a metric fails for the files a pattern matches *)
WillFail(pattern) ==
    \/ \E f \in Matching(pattern) : ~Contents[f.content].readable
    \/ \E r \in SourceRows(pattern) : r.targets \notin {0, 1}

(* C9: a run logs a heading, summary line or LaTeX line only once every   *)
(* matching file is loaded and the five metrics are computed and merged   *)
(* for all groups; a run in which a load or a metric fails raises and     *)
(* logs none of these lines.                                              *)
C9_NoPartialReport ==
    \A pattern \in {WordPattern, SentencePattern} :
        LET report == ReportLines(RunName(pattern))
        IN  /\ WillFail(pattern) => report = <<>>
            /\ (file_pattern = pattern /\ pc = "raised") => report = <<>>
            /\ (file_pattern = pattern /\ report /= <<>>) =>
                  /\ Merged
                  /\ exc = ""
                  /\ Range(filepaths) = Matching(pattern)
                  /\ fp_i = Len(filepaths) + 1
                  /\ {Key(metrics[i]) : i \in DOMAIN metrics} = SourceKeys(pattern)
                  /\ \A i \in DOMAIN metrics :
                        {"mcc", "kappa", "precision", "recall", "auc"}
                            \subseteq DOMAIN metrics[i]

C9_Witness ==
    /\ pc = "raised"
    /\ exc = "BinaryMatthewsCorrCoef"
    /\ Len(filepaths) = 2
    /\ file_pattern = SentencePattern
    /\ ReportLines("word relevance") /= <<>>

(* C10: main announces and runs word relevance first and sentence         *)
(* relevance second, also after a word run that found no file; the files  *)
(* of the word run are read before the sentence run is announced, those   *)
(* of the sentence run after; the table, the metrics and the report of    *)
(* the sentence run hold rows, groups, models and strategies of the       *)
(* sentence files only.                                                   *)
C10_TwoIndependentRuns ==
    LET w == GenIndex("word relevance")
        s == GenIndex("sentence relevance")
        gens == {j \in DOMAIN log : log[j].kind = "Generating results for %s..."}
        sModels == {r.model : r \in SourceRows(SentencePattern)}
        sStrategies == {r.strategy : r \in SourceRows(SentencePattern)}
        report == ReportLines("sentence relevance")
    IN  /\ pc /= "main" => w = 2
        /\ gens \subseteq {w, s}
        /\ s > 0 => s > w
        /\ file_pattern = WordPattern => s = 0
        /\ file_pattern = SentencePattern => s > 0
        /\ pc = "done" => s > 0 /\ RunLog("sentence relevance") /= <<>>
        /\ \A j \in DOMAIN log :
              log[j].kind = "Reading %s" =>
                  IF log[j].args[1].prefix = "w_relevance_seed"
                  THEN j > w /\ (s = 0 \/ j < s)
                  ELSE s > 0 /\ j > s
        /\ file_pattern = SentencePattern =>
              /\ AfterSigmoid =>
                    /\ Len(results) =
                          SumSeq([k \in 1..Len(filepaths) |->
                                     Len(Contents[filepaths[k].content].rows)])
                    /\ \A i \in DOMAIN results :
                          Key(results[i]) \in SourceKeys(SentencePattern)
              /\ \A i \in DOMAIN metrics :
                    Key(metrics[i]) \in SourceKeys(SentencePattern)
              /\ Len(latex_output) <= 3 * Cardinality(sStrategies)
        /\ \A j \in DOMAIN report :
              /\ report[j].kind = "Model: %s, Strategy: %s" =>
                    report[j].args[1] \in sModels /\ report[j].args[2] \in sStrategies
              /\ report[j].kind = "latex_output" =>
                    Len(report[j].args[1]) = 3 * Cardinality(sStrategies)

C10_Witness ==
    /\ pc = "done"
    /\ \E j \in DOMAIN ReportLines("word relevance") :
          /\ ReportLines("word relevance")[j].kind = "Model: %s, Strategy: %s"
          /\ ReportLines("word relevance")[j].args[1] = "eegnet"
    /\ ReportLines("sentence relevance") /= <<>>
    /\ \A j \in DOMAIN ReportLines("sentence relevance") :
          ReportLines("sentence relevance")[j].kind = "Model: %s, Strategy: %s" =>
              ReportLines("sentence relevance")[j].args[1] /= "eegnet"

===========================================================================
